---- MODULE Spec2Model ----
\* Relief-package workflow of DRIMS (app/features/packages_aidmgmt.py) on top of the
\* version_nbr flush hooks (app/core/optimistic_locking.py) and the tables of
\* app/db/models.py.  Every web request runs in its own SQLAlchemy session; the
\* sessions share one database.  A session's flushed but uncommitted rows are private
\* to it (they live in mem[s]) and reach the database rows below only at commit.
EXTENDS Integers, Sequences, FiniteSets, TLC

\* ---------------------------------------------------------------- bounds
NumSessions == 2
\* calls started in one behaviour
MaxCalls == 3
\* longest rqst_item_id[] / item_qty[] list of a form when calls run concurrently (Spec)
MaxLines == 1
\* the same when the calls run one after the other (SpecSeq)
SeqMaxLines == 2
\* objects in the unit of work of a flush (SpecHook)
MaxHookObjs == 2
\* quantities of the seeded rows (the scenario of the spec: requested 100, usable 50);
\* the request item of item 2 is already issued up to SeedIssuedQty
SeedRequestQty == 100
SeedUsableQty == 50
SeedIssuedQty == 80

Sessions == 1..NumSessions

\* ---------------------------------------------------------------- form values
\* request.form values are strings; '' is a blank field.
ItemIdStrs == {"", "1", "2", "3", "4"}
QtyStrs == {"", "0", "20", "30", "60"}
WarehouseIds == {1, 2}
RqstIds == {1}

\* int(rqst_item_id_str)
int(str) ==
    CASE str = "1" -> 1
      [] str = "2" -> 2
      [] str = "3" -> 3
      [] str = "4" -> 4

\* float(qty_str)
float(str) ==
    CASE str = "0" -> 0
      [] str = "30" -> 30
      [] str = "60" -> 60
      [] str = "20" -> 20

\* truth value of a str: only '' is false
Truthy(str) == str # ""

Min(a, b) == IF a < b THEN a ELSE b

SeqsUpTo(S, n) == UNION {[1..k -> S] : k \in 0..n}

\* ---------------------------------------------------------------- state
VARIABLES
    rqst,        \* reliefrqst rows:      reliefrqst_id -> row
    rqstItem,    \* reliefrqst_item rows: <<reliefrqst_id, item_id>> -> row
    inventory,   \* inventory rows:       inventory_id -> row
    pkg,         \* reliefpkg rows:       reliefpkg_id -> row
    pkgItem,     \* reliefpkg_item rows (a set; the primary key is the triple of ids)
    pkgSeq,      \* next value of the reliefpkg_id sequence
    clock,       \* datetime.now()
    pc,          \* where each session's handler stands
    form,        \* the request each session is handling
    mem,         \* the session's unit of work: objects loaded, added and changed
    result,      \* the handler's outcome (flash message / response)
    reads,       \* rows the call has loaded
    persisted,   \* rows the call has committed
    raced,       \* the call and another one had both loaded one row of the line loop
                 \* when the first of the two ended
    calls,       \* calls started so far
    commits,     \* versioned UPDATEs committed so far: the row, the version_nbr the
                 \* writer had loaded, the session and the number of calls started then
    uow          \* a unit of work of versioned objects on its way through a flush

dbvars == <<rqst, rqstItem, inventory, pkg, pkgItem>>
vars == <<rqst, rqstItem, inventory, pkg, pkgItem, pkgSeq, clock, pc, form, mem,
          result, reads, persisted, raced, calls, commits, uow>>

Key(t, a, b) == [t |-> t, a |-> a, b |-> b]

NoForm ==
    [op |-> "none", reliefrqst_id |-> 0, warehouse_id |-> 0,
     rqst_item_ids |-> <<>>, item_qtys |-> <<>>, package_id |-> 0]

NoPackage ==
    [reliefpkg_id |-> 0, reliefrqst_id |-> 0, to_inventory_id |-> 0,
     status_code |-> "", dispatch_dtime |-> 0, version_nbr |-> 0,
     original_version_nbr |-> 0]

NoLine == [item_id |-> 0, qty |-> 0, fr_inventory_id |-> 0]

\* an empty session (also what db.session.rollback() leaves: nothing pending, every
\* loaded object expired)
NoMem ==
    [rqst_status |-> 0, package |-> NoPackage, new_items |-> <<>>,
     ri |-> <<>>, inv |-> <<>>, i |-> 0, cur |-> NoLine, updates |-> {}]

\* no flush under way
NoUow ==
    [objs |-> <<>>, rows |-> <<>>, saved |-> <<>>, phase |-> "none",
     warned |-> {}, result |-> "none"]

\* db.session.rollback(), seen from the session: pending objects are expunged and
\* loaded ones expired
Rollback(m) == NoMem

\* the reliefpkg row of a ReliefPkg object
PkgRow(p) ==
    [reliefrqst_id |-> p.reliefrqst_id, to_inventory_id |-> p.to_inventory_id,
     status_code |-> p.status_code, dispatch_dtime |-> p.dispatch_dtime,
     version_nbr |-> p.version_nbr]

\* a transaction end that keeps the package INSERT of line 74
RolledBack_KeepsFlushed(rows, m) ==
    IF m.package.reliefpkg_id = 0 THEN rows
    ELSE (m.package.reliefpkg_id :> PkgRow(m.package)) @@ rows

\* db.session.rollback(), seen from the reliefpkg table: the INSERT the transaction
\* flushed at line 74 is undone, the rows are what they were
RolledBack(rows, m) == rows

\* ---------------------------------------------------------------- the seeded database
\* Inventory (models.py): active rows for items 1 and 2 at warehouse 1, an inactive
\* row for item 3 there, and only an inactive row at warehouse 2.
InventoryRow(w, it, st, usable) ==
    [warehouse_id |-> w, item_id |-> it, status_code |-> st, usable_qty |-> usable,
     reserved_qty |-> 0, defective_qty |-> 0, expired_qty |-> 0, version_nbr |-> 1]

\* ReliefRqstItem (models.py): issue_qty defaults to 0, version_nbr to 1
RqstItemRow(req, iss) ==
    [request_qty |-> req, issue_qty |-> iss, version_nbr |-> 1]

\* issue_qty of the seeded ReliefRqstItem of item it: what packages made before the
\* first call of a behaviour have issued
SeededIssue(it) == IF it = 2 THEN SeedIssuedQty ELSE 0

\* the tables as seeded and every session idle
InitCalls ==
    /\ rqst \in [RqstIds -> [status_code : 1..5]]
    /\ rqstItem = (<<1, 1>> :> RqstItemRow(SeedRequestQty, SeededIssue(1)))
                  @@ (<<1, 2>> :> RqstItemRow(SeedRequestQty, SeededIssue(2)))
                  @@ (<<1, 3>> :> RqstItemRow(SeedRequestQty, SeededIssue(3)))
    /\ inventory = (1 :> InventoryRow(1, 1, "A", SeedUsableQty))
                   @@ (2 :> InventoryRow(1, 2, "A", SeedUsableQty))
                   @@ (3 :> InventoryRow(1, 3, "I", SeedUsableQty))
                   @@ (4 :> InventoryRow(2, 1, "I", SeedUsableQty))
    /\ pkg = <<>>
    /\ pkgItem = {}
    /\ pkgSeq = 1
    /\ clock = 1
    /\ pc = [s \in Sessions |-> "idle"]
    /\ form = [s \in Sessions |-> NoForm]
    /\ mem = [s \in Sessions |-> NoMem]
    /\ result = [s \in Sessions |-> "none"]
    /\ reads = [s \in Sessions |-> {}]
    /\ persisted = [s \in Sessions |-> {}]
    /\ raced = [s \in Sessions |-> FALSE]
    /\ calls = 0
    /\ commits = {}

Init == InitCalls /\ uow = NoUow

\* ---------------------------------------------------------------- optimistic_locking.py
\* An object's _original_version_nbr attribute; 0 stands for "attribute not set".
HasOriginal(obj) == obj.original_version_nbr # 0

\* before_flush, for one object of session.dirty that is modified, whose version_nbr
\* has no pending change and is not None: bump version_nbr in memory and remember
\* the version the object was loaded with.
EnforceOptimisticLock(obj) ==
    [obj EXCEPT !.version_nbr = obj.version_nbr + 1,
                !.original_version_nbr = obj.version_nbr]

\* after_flush, for one object that carries _original_version_nbr: TRUE when the
\* hook rolls back and raises OptimisticLockError.  It compares the object's own
\* in-memory version_nbr, the value before_flush has just assigned.
VerifyOptimisticLock(obj) ==
    HasOriginal(obj) /\ obj.version_nbr # obj.original_version_nbr + 1

\* after_flush: delattr(obj, '_original_version_nbr')
DelOriginal(obj) == [obj EXCEPT !.original_version_nbr = 0]

\* an UPDATE that completes the package whatever status the object carries
UpdatePkgRow_Completes(row, obj) ==
    [row EXCEPT !.status_code = "C",
                !.dispatch_dtime = obj.dispatch_dtime,
                !.version_nbr = obj.version_nbr]

\* an UPDATE that also rewrites the columns dispatch_package never assigns
UpdatePkgRow_AllColumns(row, obj) ==
    [row EXCEPT !.status_code = obj.status_code,
                !.dispatch_dtime = obj.dispatch_dtime,
                !.version_nbr = obj.version_nbr,
                !.to_inventory_id = 0]

\* an UPDATE that leaves dispatch_dtime out
UpdatePkgRow_NoDtime(row, obj) ==
    [row EXCEPT !.status_code = obj.status_code,
                !.version_nbr = obj.version_nbr]

\* The UPDATE the unit of work emits for a changed ReliefPkg: it sets the changed
\* columns and is keyed by the primary key alone (the mapper declares no
\* version_id_col, so version_nbr is not part of the WHERE clause).
UpdatePkgRow(row, obj) ==
    [row EXCEPT !.status_code = obj.status_code,
                !.dispatch_dtime = obj.dispatch_dtime,
                !.version_nbr = obj.version_nbr]

\* a commit that marks the request of the package as being filled
UpdateRqstRow_MarksFilling(row, status_code) ==
    [row EXCEPT !.status_code = 3]

\* What the commit of create_package does to the reliefrqst row of the ReliefRqst
\* it loaded at line 43: the handler only reads relief_request.status_code, the
\* object is never in session.dirty and no UPDATE is emitted for it.
UpdateRqstRow(row, status_code) == row

\* The UPDATE for a changed ReliefRqstItem, keyed by (reliefrqst_id, item_id).
UpdateRqstItemRow(row, obj) ==
    [row EXCEPT !.issue_qty = obj.issue_qty, !.version_nbr = obj.version_nbr]

\* ---------------------------------------------------------------- create_package checks
\* a status test that lets every status from Approved on through
Packable_FromApprovedOn(status_code) == status_code >= 2

\* line 45: relief_request.status_code not in [2, 3]
Packable(status_code) == status_code \in {2, 3}

\* the query without its status_code filter
ActiveAt_AnyStatus(w) == {id \in DOMAIN inventory : inventory[id].warehouse_id = w}

\* lines 58-61: Inventory.query.filter_by(warehouse_id=.., status_code='A')
ActiveAt(w) ==
    {id \in DOMAIN inventory :
        inventory[id].warehouse_id = w /\ inventory[id].status_code = "A"}

\* lines 105-109: the same with item_id
ActiveSourceAt(w, it) == {id \in ActiveAt(w) : inventory[id].item_id = it}

\* line 80: if rqst_item_id_str and qty_str
LineFilled(idstr, qstr) == Truthy(idstr) /\ Truthy(qstr)

\* a quantity test that lets zero through
QtyNotPositive_AllowsZero(qty) == qty < 0

\* line 84
QtyNotPositive(qty) == qty <= 0

\* a remaining check that forgets what has been issued already
ExceedsRemaining_IgnoresIssued(qty, ri) == qty > ri.request_qty

\* lines 99-100
ExceedsRemaining(qty, ri) == qty > ri.request_qty - ri.issue_qty

\* line 116
StockShort(inv, qty) == inv.usable_qty < qty

\* the addition as it is between two Decimals
DecimalIAddFloat_Adds(issue_qty, qty) == [raises |-> "", val |-> issue_qty + qty]

\* line 131, rqst_item.issue_qty += qty: issue_qty is a Numeric(12, 2) column
\* (models.py 293), loaded as a decimal.Decimal, and qty is the float of line 82.
\* Decimal.__add__ and float.__radd__ both return NotImplemented for this pair, so the
\* statement raises TypeError and leaves issue_qty as it was.
DecimalIAddFloat(issue_qty, qty) == [raises |-> "TypeError", val |-> issue_qty]

\* line 79: zip() stops at the shorter list
ZipLen(f) == Min(Len(f.rqst_item_ids), Len(f.item_qtys))

\* line 134
EmptyCheck(f) ==
    \/ Len(f.rqst_item_ids) = 0
    \/ \A k \in 1..Len(f.item_qtys) :
          Truthy(f.item_qtys[k]) => float(f.item_qtys[k]) <= 0

\* ---------------------------------------------------------------- the unit of work
PkgItemPk(it) == <<it.reliefpkg_id, it.fr_inventory_id, it.item_id>>

\* session.flush() of a create_package unit of work (the autoflush before a query,
\* and the flush inside commit()): before_flush bumps every dirty ReliefRqstItem,
\* the INSERTs and UPDATEs go to the transaction, after_flush verifies.  Two pending
\* ReliefPkgItem objects with one primary key make the flush raise.
Flush(m) ==
    LET dup == \E a, b \in 1..Len(m.new_items) :
                  a < b /\ PkgItemPk(m.new_items[a]) = PkgItemPk(m.new_items[b])
        dirty == {it \in DOMAIN m.ri : m.ri[it].dirty}
        bumped == [it \in DOMAIN m.ri |->
                     IF it \in dirty THEN EnforceOptimisticLock(m.ri[it]) ELSE m.ri[it]]
        stale == \E it \in dirty : VerifyOptimisticLock(bumped[it])
        after == [it \in DOMAIN m.ri |->
                     IF it \in dirty
                     THEN [DelOriginal(bumped[it]) EXCEPT !.dirty = FALSE, !.written = TRUE]
                     ELSE m.ri[it]]
    IN  [raises |-> IF dup THEN "IntegrityError"
                    ELSE IF stale THEN "OptimisticLockError" ELSE "",
         mem |-> [m EXCEPT !.ri = after,
                           !.updates = @ \cup
                               {[ent |-> Key("ReliefRqstItem", m.package.reliefrqst_id, it),
                                 base |-> bumped[it].original_version_nbr] : it \in dirty}]]

InFlight(s) == pc[s] \notin {"idle", "done"}

\* the POST forms of create_package with lists of at most n entries
CreateForms(n) ==
    [op : {"create"}, reliefrqst_id : RqstIds, warehouse_id : WarehouseIds,
     rqst_item_ids : SeqsUpTo(ItemIdStrs, n),
     item_qtys : SeqsUpTo(QtyStrs, n), package_id : {0}]

\* A handler starts on an idle session.
CanStart(s) == pc[s] = "idle" /\ calls < MaxCalls

StartCall(s, f) ==
    /\ calls' = calls + 1
    /\ form' = [form EXCEPT ![s] = f]

\* rows loaded inside the line loop (lines 89-92 and 105-109)
LoopRows(rd) == {k \in rd : k.t = "ReliefRqstItem" \/ (k.t = "Inventory" /\ k.b # 0)}

\* The handler returns with response res; m is what is left in the session and rd
\* the rows it has loaded.
Finish(s, res, m, rd) ==
    /\ pc' = [pc EXCEPT ![s] = "done"]
    /\ result' = [result EXCEPT ![s] = res]
    /\ mem' = [mem EXCEPT ![s] = m]
    /\ reads' = [reads EXCEPT ![s] = rd]
    /\ raced' = [t \in Sessions |->
                   IF t = s
                   THEN raced[s] \/ \E u \in Sessions \ {s} :
                                      InFlight(u) /\ LoopRows(rd) \cap LoopRows(reads[u]) # {}
                   ELSE raced[t] \/ (InFlight(t) /\ LoopRows(rd) \cap LoopRows(reads[t]) # {})]

\* ---------------------------------------------------------------- create_package
\* lines 39-74: load the request, check its status, resolve the destination
\* inventory, add the package and flush it (the INSERT draws reliefpkg_id from the
\* sequence; the row stays private to the transaction).
CreateBegin(s, n) ==
    /\ CanStart(s)
    /\ UNCHANGED uow
    /\ \E f \in CreateForms(n) :
      LET st == rqst[f.reliefrqst_id].status_code
          rk == Key("ReliefRqst", f.reliefrqst_id, 0)
      IN
      /\ StartCall(s, f)
      /\ persisted' = [persisted EXCEPT ![s] = {}]
      /\ UNCHANGED <<dbvars, clock, commits>>
      /\ IF ~Packable(st)
         THEN /\ Finish(s, "InvalidState", [NoMem EXCEPT !.rqst_status = st], {rk})
              /\ UNCHANGED pkgSeq
         ELSE IF ActiveAt(f.warehouse_id) = {}
         THEN /\ Finish(s, "NoActiveInventory", [NoMem EXCEPT !.rqst_status = st], {rk})
              /\ UNCHANGED pkgSeq
         ELSE \E dest \in ActiveAt(f.warehouse_id) :
              /\ raced' = [raced EXCEPT ![s] = FALSE]
              /\ pc' = [pc EXCEPT ![s] = "create_loop"]
              /\ result' = [result EXCEPT ![s] = "none"]
              /\ mem' = [mem EXCEPT ![s] =
                    [NoMem EXCEPT
                       !.rqst_status = st,
                       !.package = [reliefpkg_id |-> pkgSeq,
                                    reliefrqst_id |-> f.reliefrqst_id,
                                    to_inventory_id |-> dest,
                                    status_code |-> "P",
                                    dispatch_dtime |-> 0,
                                    version_nbr |-> 1,
                                    original_version_nbr |-> 0],
                       !.inv = dest :> inventory[dest],
                       !.i = 1]]
              /\ reads' = [reads EXCEPT ![s] = {rk, Key("Inventory", dest, 0)}]
              /\ pkgSeq' = pkgSeq + 1

\* What the session holds for a ReliefRqstItem: the object of its identity map if it
\* has loaded the row before, else the row as committed.
LoadRqstItem(m, req, it) ==
    IF it \in DOMAIN m.ri THEN m.ri[it]
    ELSE [request_qty |-> rqstItem[<<req, it>>].request_qty,
          issue_qty |-> rqstItem[<<req, it>>].issue_qty,
          version_nbr |-> rqstItem[<<req, it>>].version_nbr,
          original_version_nbr |-> 0, dirty |-> FALSE, written |-> FALSE]

LoadInventory(m, id) == IF id \in DOMAIN m.inv THEN m.inv[id] ELSE inventory[id]

\* lines 79-129, one turn of the loop up to db.session.add(pkg_item).  Every failed
\* check rolls the session back and returns.
CreateLine(s) ==
    LET f == form[s]
        m == mem[s]
        idstr == f.rqst_item_ids[m.i]
        qstr == f.item_qtys[m.i]
        req == f.reliefrqst_id
    IN
    /\ pc[s] = "create_loop"
    /\ UNCHANGED uow
    /\ m.i <= ZipLen(f)
    /\ UNCHANGED <<rqst, rqstItem, inventory, pkgItem, pkgSeq, clock, form, persisted,
                   calls, commits>>
    /\ IF ~LineFilled(idstr, qstr)
       THEN /\ mem' = [mem EXCEPT ![s].i = m.i + 1]
            /\ UNCHANGED <<pc, result, reads, raced>>
       ELSE IF QtyNotPositive(float(qstr))
       THEN Finish(s, "InvalidQuantity", Rollback(m), reads[s])
       ELSE
         LET it == int(idstr)
             qty == float(qstr)
             fl == Flush(m)
             rik == Key("ReliefRqstItem", req, it)
         IN
         IF fl.raises # ""
         THEN Finish(s, "Exception", Rollback(fl.mem), reads[s])
         ELSE IF <<req, it>> \notin DOMAIN rqstItem
         THEN Finish(s, "ItemNotInRequest", Rollback(fl.mem), reads[s])
         ELSE IF ExceedsRemaining(qty, LoadRqstItem(fl.mem, req, it))
         THEN Finish(s, "QuantityExceedsRemaining", Rollback(fl.mem), reads[s] \cup {rik})
         ELSE IF ActiveSourceAt(f.warehouse_id, it) = {}
         THEN Finish(s, "ItemNotStocked", Rollback(fl.mem), reads[s] \cup {rik})
         ELSE \E src \in ActiveSourceAt(f.warehouse_id, it) :
              LET rd == reads[s] \cup {rik, Key("Inventory", src, it)} IN
              IF StockShort(LoadInventory(fl.mem, src), qty)
                 THEN Finish(s, "InsufficientStock", Rollback(fl.mem), rd)
                 ELSE /\ pc' = [pc EXCEPT ![s] = "create_issue"]
                      /\ reads' = [reads EXCEPT ![s] = rd]
                      /\ UNCHANGED <<result, raced>>
                      /\ mem' = [mem EXCEPT ![s] =
                            [fl.mem EXCEPT
                               !.ri = (it :> LoadRqstItem(fl.mem, req, it)) @@ fl.mem.ri,
                               !.inv = (src :> LoadInventory(fl.mem, src)) @@ fl.mem.inv,
                               !.new_items = Append(@,
                                   [reliefpkg_id |-> fl.mem.package.reliefpkg_id,
                                    fr_inventory_id |-> src,
                                    item_id |-> it,
                                    item_qty |-> qty]),
                               !.cur = [item_id |-> it, qty |-> qty,
                                        fr_inventory_id |-> src]]]
    /\ pkg' = IF pc'[s] = "done" THEN RolledBack(pkg, m) ELSE pkg

\* lines 131-132 and the handler of lines 144-147: the += either raises, which the
\* except clause turns into a rollback, or marks the ReliefRqstItem dirty.
CreateIssue(s) ==
    LET m == mem[s]
        it == m.cur.item_id
        sum == DecimalIAddFloat(m.ri[it].issue_qty, m.cur.qty)
    IN
    /\ pc[s] = "create_issue"
    /\ UNCHANGED uow
    /\ UNCHANGED <<rqst, rqstItem, inventory, pkgItem, pkgSeq, clock, form, persisted,
                   calls, commits>>
    /\ IF sum.raises # ""
       THEN Finish(s, "Exception", Rollback(m), reads[s])
       ELSE /\ pc' = [pc EXCEPT ![s] = "create_loop"]
            /\ UNCHANGED <<result, reads, raced>>
            /\ mem' = [mem EXCEPT ![s] =
                  [m EXCEPT !.ri[it].issue_qty = sum.val,
                            !.ri[it].dirty = TRUE,
                            !.cur = NoLine,
                            !.i = m.i + 1]]
    /\ pkg' = IF pc'[s] = "done" THEN RolledBack(pkg, m) ELSE pkg

\* lines 134-142: the empty-package check, then db.session.commit().
CreateCommit(s) ==
    LET f == form[s]
        m == mem[s]
        fl == Flush(m)
        req == f.reliefrqst_id
        wr == {it \in DOMAIN fl.mem.ri : fl.mem.ri[it].written}
        row == PkgRow(m.package)
    IN
    /\ pc[s] = "create_loop"
    /\ UNCHANGED uow
    /\ m.i > ZipLen(f)
    /\ UNCHANGED <<inventory, pkgSeq, clock, form, calls>>
    /\ IF EmptyCheck(f)
       THEN /\ Finish(s, "EmptyPackage", Rollback(m), reads[s])
            /\ pkg' = RolledBack(pkg, m)
            /\ UNCHANGED <<rqst, rqstItem, pkgItem, persisted, commits>>
       ELSE IF fl.raises # ""
       THEN /\ Finish(s, "Exception", Rollback(fl.mem), reads[s])
            /\ pkg' = RolledBack(pkg, m)
            /\ UNCHANGED <<rqst, rqstItem, pkgItem, persisted, commits>>
       ELSE /\ Finish(s, "ok", NoMem, reads[s])
            /\ rqst' = [id \in DOMAIN rqst |->
                   IF id = req THEN UpdateRqstRow(rqst[id], m.rqst_status)
                   ELSE rqst[id]]
            /\ pkg' = (m.package.reliefpkg_id :> row) @@ pkg
            /\ pkgItem' = pkgItem \cup {m.new_items[k] : k \in 1..Len(m.new_items)}
            /\ rqstItem' = [key \in DOMAIN rqstItem |->
                   IF key[1] = req /\ key[2] \in wr
                   THEN UpdateRqstItemRow(rqstItem[key], fl.mem.ri[key[2]])
                   ELSE rqstItem[key]]
            /\ persisted' = [persisted EXCEPT ![s] =
                   {Key("ReliefPkg", m.package.reliefpkg_id, 0)}
                   \cup {Key("ReliefPkgItem", m.package.reliefpkg_id, m.new_items[k].item_id) :
                            k \in 1..Len(m.new_items)}
                   \cup {Key("ReliefRqstItem", req, it) : it \in wr}]
            /\ commits' = commits \cup
                   {[ent |-> u.ent, base |-> u.base, by |-> s, at |-> calls] :
                        u \in fl.mem.updates}

\* ---------------------------------------------------------------- dispatch_package
\* lines 184-193: load the package, check its status, change it in memory.
DispatchLoad(s) ==
    /\ CanStart(s)
    /\ UNCHANGED uow
    /\ \E id \in 1..pkgSeq :
      /\ StartCall(s, [NoForm EXCEPT !.op = "dispatch", !.package_id = id])
      /\ persisted' = [persisted EXCEPT ![s] = {}]
      /\ UNCHANGED <<dbvars, pkgSeq, commits>>
      /\ IF id \notin DOMAIN pkg
         THEN /\ Finish(s, "NotFound", NoMem, {})
              /\ UNCHANGED clock
         ELSE IF pkg[id].status_code # "P"
                 THEN /\ Finish(s, "InvalidState", NoMem, {Key("ReliefPkg", id, 0)})
                      /\ UNCHANGED clock
                 ELSE /\ reads' = [reads EXCEPT ![s] = {Key("ReliefPkg", id, 0)}]
                      /\ raced' = [raced EXCEPT ![s] = FALSE]
                      /\ pc' = [pc EXCEPT ![s] = "dispatch_commit"]
                      /\ result' = [result EXCEPT ![s] = "none"]
                      /\ clock' = clock + 1
                      /\ mem' = [mem EXCEPT ![s] =
                            [NoMem EXCEPT !.package =
                               [reliefpkg_id |-> id,
                                reliefrqst_id |-> pkg[id].reliefrqst_id,
                                to_inventory_id |-> pkg[id].to_inventory_id,
                                status_code |-> "D",
                                dispatch_dtime |-> clock,
                                version_nbr |-> pkg[id].version_nbr,
                                original_version_nbr |-> 0]]]

\* line 195, db.session.commit(): before_flush, the UPDATE, after_flush, COMMIT.
DispatchCommit(s) ==
    LET obj == EnforceOptimisticLock(mem[s].package)
        id == obj.reliefpkg_id
    IN
    /\ pc[s] = "dispatch_commit"
    /\ UNCHANGED uow
    /\ UNCHANGED <<rqst, rqstItem, inventory, pkgItem, pkgSeq, clock, form, calls>>
    /\ IF VerifyOptimisticLock(obj)
       THEN /\ Finish(s, "StaleVersionConflict", Rollback(mem[s]), reads[s])
            /\ UNCHANGED <<pkg, persisted, commits>>
       ELSE /\ Finish(s, "ok", NoMem, reads[s])
            /\ pkg' = [pkg EXCEPT ![id] = UpdatePkgRow(@, obj)]
            /\ persisted' = [persisted EXCEPT ![s] = {Key("ReliefPkg", id, 0)}]
            /\ commits' = commits \cup
                   {[ent |-> Key("ReliefPkg", id, 0), base |-> obj.original_version_nbr,
                     by |-> s, at |-> calls]}

\* The response is sent and the request's session is discarded.
Teardown(s) ==
    /\ pc[s] = "done"
    /\ UNCHANGED uow
    /\ pc' = [pc EXCEPT ![s] = "idle"]
    /\ form' = [form EXCEPT ![s] = NoForm]
    /\ mem' = [mem EXCEPT ![s] = NoMem]
    /\ result' = [result EXCEPT ![s] = "none"]
    /\ reads' = [reads EXCEPT ![s] = {}]
    /\ persisted' = [persisted EXCEPT ![s] = {}]
    /\ raced' = [raced EXCEPT ![s] = FALSE]
    /\ UNCHANGED <<dbvars, pkgSeq, clock, calls, commits>>

\* ---------------------------------------------------------------- record_intake
\* The intake handler is not part of the sources at hand (models.py declares its
\* tables DBIntake and DBIntakeItem); it is modelled after the workflow description:
\* valid only on a Dispatched package, it consumes the reserved quantity of the
\* package's source inventories, credits the destination inventory's usable,
\* defective and expired buckets with a split that must add up to the dispatched
\* quantity, and completes the package, all in one transaction.
IntakeQtys == {0, 20}

Splits == [usable_qty : IntakeQtys, defective_qty : IntakeQtys, expired_qty : IntakeQtys]

RECURSIVE SumQty(_)
SumQty(items) ==
    IF items = {} THEN 0
    ELSE LET it == CHOOSE x \in items : TRUE IN it.item_qty + SumQty(items \ {it})

\* the ReliefPkgItem rows of a package, and those taken from one inventory row
ItemsOf(id) == {it \in pkgItem : it.reliefpkg_id = id}
ItemsOfFrom(id, src) == {it \in ItemsOf(id) : it.fr_inventory_id = src}

\* the inventory rows after the intake of package id with split sp
IntakeInventory(id, sp) ==
    [iv \in DOMAIN inventory |->
       LET consumed == [inventory[iv] EXCEPT
                          !.reserved_qty = @ - SumQty(ItemsOfFrom(id, iv))]
           credited == IF iv = pkg[id].to_inventory_id
                       THEN [consumed EXCEPT !.usable_qty = @ + sp.usable_qty,
                                             !.defective_qty = @ + sp.defective_qty,
                                             !.expired_qty = @ + sp.expired_qty]
                       ELSE consumed
       IN IF credited = inventory[iv] THEN credited
          ELSE [credited EXCEPT !.version_nbr = @ + 1]]

RecordIntake(s) ==
    /\ CanStart(s)
    /\ UNCHANGED uow
    /\ \E id \in 1..pkgSeq, sp \in Splits :
      /\ StartCall(s, [NoForm EXCEPT !.op = "intake", !.package_id = id])
      /\ UNCHANGED <<rqst, rqstItem, pkgItem, pkgSeq, clock>>
      /\ IF id \notin DOMAIN pkg
         THEN /\ Finish(s, "NotFound", NoMem, {})
              /\ persisted' = [persisted EXCEPT ![s] = {}]
              /\ UNCHANGED <<pkg, inventory, commits>>
         ELSE IF pkg[id].status_code # "D"
         THEN /\ Finish(s, "InvalidState", NoMem, {Key("ReliefPkg", id, 0)})
              /\ persisted' = [persisted EXCEPT ![s] = {}]
              /\ UNCHANGED <<pkg, inventory, commits>>
         ELSE IF sp.usable_qty + sp.defective_qty + sp.expired_qty # SumQty(ItemsOf(id))
         THEN /\ Finish(s, "InvalidQuantity", NoMem, {Key("ReliefPkg", id, 0)})
              /\ persisted' = [persisted EXCEPT ![s] = {}]
              /\ UNCHANGED <<pkg, inventory, commits>>
         ELSE /\ Finish(s, "ok", NoMem, {Key("ReliefPkg", id, 0)})
              /\ pkg' = [pkg EXCEPT ![id].status_code = "C",
                                    ![id].version_nbr = @ + 1]
              /\ inventory' = IntakeInventory(id, sp)
              /\ persisted' = [persisted EXCEPT ![s] = {Key("ReliefPkg", id, 0)}]
              /\ commits' = commits \cup
                     {[ent |-> Key("ReliefPkg", id, 0), base |-> pkg[id].version_nbr,
                       by |-> s, at |-> calls]}

\* ---------------------------------------------------------------- a flush under the hooks
\* The hooks are registered on every Session, whatever the caller has done to its
\* objects.  uow is a unit of work holding versioned objects in any state a caller
\* can leave them in, and the rows they were loaded from; BeforeFlush, FlushRows and
\* AfterFlush are the three stages of its flush.

\* version_nbr values: 0 stands for None
HookVersions == {0, 1, 2}

\* An object of the identity map.  has_version: the class has a version_nbr
\* attribute; dirty: the object is in session.dirty; modified: session.is_modified;
\* version_set: the caller has assigned version_nbr itself (its history has changes);
\* loaded_version_nbr: the committed value of the attribute.
HookObjects ==
    {o \in [has_version : BOOLEAN, dirty : BOOLEAN, modified : BOOLEAN,
            version_set : BOOLEAN, version_nbr : HookVersions,
            loaded_version_nbr : HookVersions, original_version_nbr : {0},
            persistent : {TRUE}] :
       /\ o.modified => o.dirty
       /\ o.version_set => (o.modified /\ o.has_version
                            /\ o.version_nbr # o.loaded_version_nbr)
       /\ ~o.version_set => o.version_nbr = o.loaded_version_nbr
       /\ ~o.has_version => o.version_nbr = 0}

\* an object and its row: the row still has the version the object was loaded
\* with, or another writer has committed an update since
HookEntries ==
    {e \in [obj : HookObjects, row : [version_nbr : 0..3, updates : {0}]] :
       e.row.version_nbr \in {e.obj.loaded_version_nbr, e.obj.loaded_version_nbr + 1}}

\* line 27: for obj in session.dirty
SessionDirty(objs) == {i \in DOMAIN objs : objs[i].dirty}

\* line 28: hasattr(obj, 'version_nbr')
HasVersion(obj) == obj.has_version

\* line 31: session.is_modified(obj)
IsModified_Always(obj) == TRUE
IsModified(obj) == obj.modified

\* line 36: state.attrs.version_nbr.history.has_changes()
VersionHasChanges_Never(obj) == FALSE
VersionHasChanges(obj) == obj.version_set

\* line 41: original_version is None
VersionIsNone_Never(obj) == FALSE
VersionIsNone(obj) == obj.version_nbr = 0

\* lines 41-45: the object gets as far as the None test and is skipped with a warning
Warned(obj) ==
    HasVersion(obj) /\ IsModified(obj) /\ ~VersionHasChanges(obj) /\ VersionIsNone(obj)

\* lines 28-49 for one object of session.dirty: the four tests that skip it, then
\* the increment
BeforeFlushObj(obj) ==
    IF ~HasVersion(obj) THEN obj
    ELSE IF ~IsModified(obj) THEN obj
    ELSE IF VersionHasChanges(obj) THEN obj
    ELSE IF VersionIsNone(obj) THEN obj
    ELSE EnforceOptimisticLock(obj)

\* before_flush (lines 21-49)
BeforeFlush ==
    /\ uow.phase = "before_flush"
    /\ uow' = [uow EXCEPT
                 !.objs = [i \in DOMAIN uow.objs |->
                             IF i \in SessionDirty(uow.objs)
                             THEN BeforeFlushObj(uow.objs[i]) ELSE uow.objs[i]],
                 !.warned = {i \in SessionDirty(uow.objs) : Warned(uow.objs[i])},
                 !.saved = uow.rows,
                 !.phase = "flush"]
    /\ UNCHANGED <<dbvars, pkgSeq, clock, pc, form, mem, result, reads, persisted,
                   raced, calls, commits>>

\* The flush itself: one UPDATE, keyed by the primary key, for each object with net
\* changes; it carries version_nbr when the attribute's value differs from the
\* committed one.  The objects are clean afterwards.
FlushRows ==
    /\ uow.phase = "flush"
    /\ uow' = [uow EXCEPT
                 !.rows = [i \in DOMAIN uow.rows |->
                             IF uow.objs[i].modified
                             THEN [version_nbr |->
                                     IF /\ uow.objs[i].has_version
                                        /\ uow.objs[i].version_nbr
                                             # uow.objs[i].loaded_version_nbr
                                     THEN uow.objs[i].version_nbr
                                     ELSE uow.rows[i].version_nbr,
                                   updates |-> uow.rows[i].updates + 1]
                             ELSE uow.rows[i]],
                 !.objs = [i \in DOMAIN uow.objs |->
                             [uow.objs[i] EXCEPT
                                !.dirty = FALSE, !.modified = FALSE,
                                !.version_set = FALSE,
                                !.loaded_version_nbr = uow.objs[i].version_nbr]],
                 !.phase = "after_flush"]
    /\ UNCHANGED <<dbvars, pkgSeq, clock, pc, form, mem, result, reads, persisted,
                   raced, calls, commits>>

\* after_flush (lines 51-77): the objects of the identity map in turn; the first
\* one found stale rolls the transaction back and raises, leaving the later ones
\* with their _original_version_nbr.
AfterFlush ==
    LET stale == {i \in DOMAIN uow.objs :
                    /\ uow.objs[i].persistent /\ HasVersion(uow.objs[i])
                    /\ VerifyOptimisticLock(uow.objs[i])}
        first == CHOOSE i \in stale : \A j \in stale : i <= j
    IN
    /\ uow.phase = "after_flush"
    /\ uow' = IF stale = {}
              THEN [uow EXCEPT
                      !.objs = [i \in DOMAIN uow.objs |-> DelOriginal(uow.objs[i])],
                      !.phase = "done", !.result = "ok"]
              ELSE [uow EXCEPT
                      !.objs = [i \in DOMAIN uow.objs |->
                                  IF i <= first THEN DelOriginal(uow.objs[i])
                                  ELSE uow.objs[i]],
                      !.rows = uow.saved,
                      !.phase = "done", !.result = "OptimisticLockError"]
    /\ UNCHANGED <<dbvars, pkgSeq, clock, pc, form, mem, result, reads, persisted,
                   raced, calls, commits>>

\* ---------------------------------------------------------------- specifications
Next ==
    \/ \E s \in Sessions : CreateBegin(s, MaxLines)
    \/ \E s \in Sessions : CreateLine(s)
    \/ \E s \in Sessions : CreateIssue(s)
    \/ \E s \in Sessions : CreateCommit(s)
    \/ \E s \in Sessions : DispatchLoad(s)
    \/ \E s \in Sessions : DispatchCommit(s)
    \/ \E s \in Sessions : Teardown(s)

Spec == Init /\ [][Next]_vars

\* The same handlers, one call at a time, with longer forms.
NextSeq ==
    \/ CreateBegin(1, SeqMaxLines)
    \/ CreateLine(1)
    \/ CreateIssue(1)
    \/ CreateCommit(1)
    \/ DispatchLoad(1)
    \/ DispatchCommit(1)
    \/ Teardown(1)

SpecSeq == Init /\ [][NextSeq]_vars

\* create_package calls only, one per session, running concurrently.
NextRace ==
    \/ \E s \in Sessions : CreateBegin(s, MaxLines)
    \/ \E s \in Sessions : CreateLine(s)
    \/ \E s \in Sessions : CreateIssue(s)
    \/ \E s \in Sessions : CreateCommit(s)

SpecRace == Init /\ [][NextRace]_vars

\* The whole pipeline, one call at a time: create, dispatch, intake.
NextFlow ==
    \/ CreateBegin(1, MaxLines)
    \/ CreateLine(1)
    \/ CreateIssue(1)
    \/ CreateCommit(1)
    \/ DispatchLoad(1)
    \/ DispatchCommit(1)
    \/ RecordIntake(1)
    \/ Teardown(1)

SpecFlow == Init /\ [][NextFlow]_vars

\* A flush of a unit of work of up to MaxHookObjs objects, each in any of the states
\* of HookObjects.
InitHook ==
    /\ InitCalls
    /\ \E es \in SeqsUpTo(HookEntries, MaxHookObjs) \ {<<>>} :
         uow = [NoUow EXCEPT !.objs = [i \in DOMAIN es |-> es[i].obj],
                             !.rows = [i \in DOMAIN es |-> es[i].row],
                             !.phase = "before_flush"]

NextHook ==
    \/ BeforeFlush
    \/ FlushRows
    \/ AfterFlush

SpecHook == InitHook /\ [][NextHook]_vars

\* ================================================================ properties
RECURSIVE SeqSum(_)
SeqSum(q) == IF q = <<>> THEN 0 ELSE Head(q) + SeqSum(Tail(q))

DoneCreate(s) == pc[s] = "done" /\ form[s].op = "create"

\* the call gets past the request and warehouse checks of lines 45 and 63
PassesGate(f) ==
    Packable(rqst[f.reliefrqst_id].status_code) /\ ActiveAt(f.warehouse_id) # {}

\* line k of the form names an item and a positive quantity
LineAsks(f, k) ==
    /\ LineFilled(f.rqst_item_ids[k], f.item_qtys[k])
    /\ float(f.item_qtys[k]) > 0

\* quantity the form asks from inventory row id
AskedFrom(f, id) ==
    SeqSum([k \in 1..ZipLen(f) |->
              IF LineAsks(f, k) /\ id \in ActiveSourceAt(f.warehouse_id, int(f.rqst_item_ids[k]))
              THEN float(f.item_qtys[k]) ELSE 0])

\* quantity of the PackageItems a unit of work has created from inventory row id
StagedFrom(m, id) ==
    SeqSum([k \in 1..Len(m.new_items) |->
              IF m.new_items[k].fr_inventory_id = id THEN m.new_items[k].item_qty ELSE 0])

\* both calls loaded source inventory row id inside the line loop
BothLoadedSource(s, t, id) ==
    \E k \in reads[s] \cap reads[t] : k.t = "Inventory" /\ k.a = id /\ k.b # 0

\* C1: no two writers commit an update of one versioned row from the same loaded
\* version_nbr: the later one fails with StaleVersionConflict (no lost update).
C1_NoLostUpdate ==
    \A a, b \in commits : (a.ent = b.ent /\ a.base = b.base) => a = b

\* C2: of two concurrent create_package calls that ask one source Inventory row for
\* more than its usable_qty together, exactly one succeeds, the other fails with
\* InsufficientStock or StaleVersionConflict, and usable_qty is never negative.
C2_ExactlyOneAllocates ==
    /\ \A id \in DOMAIN inventory : inventory[id].usable_qty >= 0
    /\ \A s, t \in Sessions :
         ( /\ s # t /\ DoneCreate(s) /\ DoneCreate(t) /\ raced[s] /\ raced[t]
           /\ \E id \in DOMAIN inventory :
                /\ BothLoadedSource(s, t, id)
                /\ AskedFrom(form[s], id) + AskedFrom(form[t], id) > inventory[id].usable_qty )
         => /\ (result[s] = "ok") # (result[t] = "ok")
            /\ \A u \in {s, t} :
                 result[u] \in {"ok", "InsufficientStock", "StaleVersionConflict"}

\* C3: of two concurrent create_package calls that have both loaded the same
\* Inventory or ReliefRqstItem row before either ends, exactly one commits and the
\* other fails at commit with a staleness conflict.
C3_OneCommitsOtherStale ==
    \A s, t \in Sessions :
      (s # t /\ DoneCreate(s) /\ DoneCreate(t) /\ raced[s] /\ raced[t])
      => \/ result[s] = "ok" /\ result[t] = "StaleVersionConflict"
         \/ result[t] = "ok" /\ result[s] = "StaleVersionConflict"

C6_IssuedWithinRequested ==
    /\ \A key \in DOMAIN rqstItem :
         0 <= rqstItem[key].issue_qty /\ rqstItem[key].issue_qty <= rqstItem[key].request_qty
    /\ \A s \in Sessions : \A it \in DOMAIN mem[s].ri :
         0 <= mem[s].ri[it].issue_qty /\ mem[s].ri[it].issue_qty <= mem[s].ri[it].request_qty
    /\ \A s \in Sessions :
         pc[s] = "create_issue"
         => /\ mem[s].cur.qty > 0
            /\ mem[s].ri[mem[s].cur.item_id].issue_qty + mem[s].cur.qty
                 <= mem[s].ri[mem[s].cur.item_id].request_qty

\* two calls in progress have each accepted a line for the same ReliefRqstItem
C6_Witness ==
    \E s, t \in Sessions :
      /\ s # t /\ pc[s] = "create_issue" /\ pc[t] = "create_issue"
      /\ mem[s].cur.item_id = mem[t].cur.item_id
      /\ mem[s].cur.qty + mem[t].cur.qty
           > rqstItem[<<1, mem[s].cur.item_id>>].request_qty
             - rqstItem[<<1, mem[s].cur.item_id>>].issue_qty

\* C7: create_package with an empty line-item list, or with line items whose
\* quantities are all zero, fails with EmptyPackage and persists nothing.
C7_EmptyOrZeroIsEmptyPackage ==
    \A s \in Sessions :
      ( /\ DoneCreate(s) /\ PassesGate(form[s])
        /\ \/ Len(form[s].rqst_item_ids) = 0 /\ Len(form[s].item_qtys) = 0
           \/ /\ Len(form[s].rqst_item_ids) = Len(form[s].item_qtys)
              /\ Len(form[s].item_qtys) > 0
              /\ \A k \in 1..Len(form[s].item_qtys) : form[s].item_qtys[k] = "0" )
      => result[s] = "EmptyPackage" /\ persisted[s] = {}

\* line k passes every check of the loop against the committed rows
LineValid(f, k) ==
    LET it == int(f.rqst_item_ids[k]) IN
    /\ LineAsks(f, k)
    /\ <<f.reliefrqst_id, it>> \in DOMAIN rqstItem
    /\ float(f.item_qtys[k])
         <= rqstItem[<<f.reliefrqst_id, it>>].request_qty
            - rqstItem[<<f.reliefrqst_id, it>>].issue_qty
    /\ \E id \in ActiveSourceAt(f.warehouse_id, it) :
         float(f.item_qtys[k]) <= inventory[id].usable_qty

\* line k asks for more than request_qty - issue_qty of its ReliefRqstItem
LineOverRemaining(f, k) ==
    LET it == int(f.rqst_item_ids[k]) IN
    /\ LineAsks(f, k)
    /\ <<f.reliefrqst_id, it>> \in DOMAIN rqstItem
    /\ float(f.item_qtys[k])
         > rqstItem[<<f.reliefrqst_id, it>>].request_qty
           - rqstItem[<<f.reliefrqst_id, it>>].issue_qty

\* C8: create_package with a line item over the remaining quantity of its
\* RequestItem (the lines before it being valid lines for other items) fails with
\* QuantityExceedsRemaining and persists nothing.
C8_OverRemainingRejected ==
    \A s \in Sessions :
      ( /\ DoneCreate(s) /\ PassesGate(form[s])
        /\ \E k \in 1..ZipLen(form[s]) :
             /\ LineOverRemaining(form[s], k)
             /\ \A j \in 1..(k - 1) :
                  /\ LineValid(form[s], j)
                  /\ form[s].rqst_item_ids[j] # form[s].rqst_item_ids[k] )
      => result[s] = "QuantityExceedsRemaining" /\ persisted[s] = {}

\* C9: create_package with one line item, positive and within the remaining
\* quantity, fails with InsufficientStock and persists nothing when qty exceeds the
\* source's usable_qty, and succeeds otherwise (requested 100, issued 0, usable 50:
\* qty 60 fails, qty 30 succeeds and its PackageItem and issue_qty are persisted).
C9_StockDecides ==
    \A s \in Sessions :
      LET f == form[s] IN
      ( /\ DoneCreate(s) /\ PassesGate(f)
        /\ Len(f.rqst_item_ids) = 1 /\ Len(f.item_qtys) = 1
        /\ LineAsks(f, 1) /\ ~LineOverRemaining(f, 1)
        /\ <<f.reliefrqst_id, int(f.rqst_item_ids[1])>> \in DOMAIN rqstItem
        /\ ActiveSourceAt(f.warehouse_id, int(f.rqst_item_ids[1])) # {} )
      => IF LineValid(f, 1)
         THEN /\ result[s] = "ok"
              /\ Key("ReliefRqstItem", f.reliefrqst_id, int(f.rqst_item_ids[1])) \in persisted[s]
         ELSE result[s] = "InsufficientStock" /\ persisted[s] = {}

\* C10: create_package on a request whose status_code is neither 2 nor 3 fails with
\* InvalidState and persists nothing, no unit of work holds a package for such a
\* request, and every reliefpkg row belongs to a request with status_code 2 or 3.
C10_OnlyPackableRequests ==
    /\ \A s \in Sessions :
         (DoneCreate(s) /\ rqst[form[s].reliefrqst_id].status_code \notin {2, 3})
         => result[s] = "InvalidState" /\ persisted[s] = {}
    /\ \A s \in Sessions :
         (form[s].op = "create" /\ mem[s].package.reliefpkg_id # 0)
         => rqst[form[s].reliefrqst_id].status_code \in {2, 3}
    /\ \A id \in DOMAIN pkg : rqst[pkg[id].reliefrqst_id].status_code \in {2, 3}

\* a call on a request that is not Approved or PartiallyFulfilled has been refused
C10_Witness ==
    \E s \in Sessions :
      /\ DoneCreate(s) /\ result[s] = "InvalidState"
      /\ rqst[form[s].reliefrqst_id].status_code \in {1, 4, 5}

\* the step in which session s's handler returns
Returns(s) == pc[s] # "done" /\ pc'[s] = "done"

\* C11: a dispatch_package call ends with success only on a package whose reliefpkg
\* row is Pending, leaving it Dispatched with dispatch_dtime stamped; a call that ends
\* on a row that is already Dispatched or Completed fails with InvalidState and
\* changes no row (so a package is dispatched at most once).
C11_DispatchOnlyPending ==
    [][\A s \in Sessions :
         (Returns(s) /\ form'[s].op = "dispatch" /\ form'[s].package_id \in DOMAIN pkg)
         => LET id == form'[s].package_id IN
            IF pkg[id].status_code = "P"
            THEN /\ result'[s] = "ok"
                 /\ pkg'[id].status_code = "D"
                 /\ pkg'[id].dispatch_dtime # 0
            ELSE /\ result'[s] = "InvalidState"
                 /\ UNCHANGED dbvars]_vars

\* the ways a line item makes create_package fail
LineFailures ==
    {"InvalidQuantity", "ItemNotInRequest", "QuantityExceedsRemaining",
     "ItemNotStocked", "InsufficientStock", "Exception"}

\* C12: a create_package call that ends with a line-item failure changes no row:
\* the reliefpkg row flushed before the loop, the ReliefPkgItems added for the lines
\* and the ReliefRqstItem and Inventory rows are as they were before the call.
C12_FailureRollsBackAll ==
    [][\A s \in Sessions :
         (Returns(s) /\ form'[s].op = "create" /\ result'[s] \in LineFailures)
         => UNCHANGED dbvars /\ persisted'[s] = {}]_vars

\* a call has failed after its package was flushed and a ReliefPkgItem added
C12_Witness ==
    \E s \in Sessions :
      /\ DoneCreate(s) /\ result[s] = "Exception"
      /\ \E k \in reads[s] : k.t = "Inventory" /\ k.b # 0
      /\ pkgSeq > 1 /\ pkg = <<>>

\* session s is about to commit an object it loaded at a version_nbr that is no
\* longer the row's: another writer has committed an update of the row since
StaleAt(s) ==
    \/ /\ pc[s] = "dispatch_commit"
       /\ pkg[mem[s].package.reliefpkg_id].version_nbr # mem[s].package.version_nbr
    \/ /\ pc[s] = "create_loop"
       /\ \E it \in DOMAIN mem[s].ri :
            /\ mem[s].ri[it].dirty
            /\ rqstItem[<<form[s].reliefrqst_id, it>>].version_nbr # mem[s].ri[it].version_nbr

\* C13: a unit of work that commits while one of its guarded objects is stale fails
\* with StaleVersionConflict (OptimisticLockError) and none of its inserts or
\* updates reaches any row.
C13_StaleCommitFailsWhole ==
    [][\A s \in Sessions :
         (StaleAt(s) /\ Returns(s))
         => /\ result'[s] = "StaleVersionConflict"
            /\ UNCHANGED dbvars
            /\ persisted'[s] = {}]_vars

\* the committed updates of one row
UpdatesOf(ent) == {c \in commits : c.ent = ent}

\* C14: the persisted version_nbr of every versioned row is 1 plus the number of
\* updates committed to that row (it starts at 1 and each committed update raises
\* it by exactly 1).
C14_VersionCountsUpdates ==
    /\ \A id \in DOMAIN pkg :
         pkg[id].version_nbr = 1 + Cardinality(UpdatesOf(Key("ReliefPkg", id, 0)))
    /\ \A key \in DOMAIN rqstItem :
         rqstItem[key].version_nbr
           = 1 + Cardinality(UpdatesOf(Key("ReliefRqstItem", key[1], key[2])))
    /\ \A id \in DOMAIN inventory : inventory[id].version_nbr = 1

\* the step in which an intake call of session s returns with success
IntakeDone(s) == Returns(s) /\ form'[s].op = "intake" /\ result'[s] = "ok"

C16_DestinationIsActive ==
    /\ \A s \in Sessions :
         ( /\ DoneCreate(s)
           /\ rqst[form[s].reliefrqst_id].status_code \in {2, 3}
           /\ ~ \E id \in DOMAIN inventory :
                  /\ inventory[id].warehouse_id = form[s].warehouse_id
                  /\ inventory[id].status_code = "A" )
         => result[s] = "NoActiveInventory" /\ persisted[s] = {}
    /\ \A s \in Sessions :
         (form[s].op = "create" /\ mem[s].package.reliefpkg_id # 0)
         => /\ inventory[mem[s].package.to_inventory_id].warehouse_id = form[s].warehouse_id
            /\ inventory[mem[s].package.to_inventory_id].status_code = "A"
    /\ \A id \in DOMAIN pkg : inventory[pkg[id].to_inventory_id].status_code = "A"

\* a package has been created at one warehouse and a call refused at the other
C16_Witness ==
    /\ pkg # <<>>
    /\ \E s \in Sessions :
         DoneCreate(s) /\ result[s] = "NoActiveInventory" /\ form[s].warehouse_id = 2

\* a ReliefPkgItem of a package for request req is well formed
WellFormedItem(it, req) ==
    /\ it.item_qty > 0
    /\ <<req, it.item_id>> \in DOMAIN rqstItem
    /\ inventory[it.fr_inventory_id].status_code = "A"
    /\ inventory[it.fr_inventory_id].item_id = it.item_id

\* C17: every ReliefPkgItem, persisted or added to a session by create_package, has
\* item_qty > 0, an item that has a ReliefRqstItem under the package's request, and
\* as source an active Inventory row of that item at the warehouse of the call.
C17_PackageItemsWellFormed ==
    /\ \A it \in pkgItem : WellFormedItem(it, pkg[it.reliefpkg_id].reliefrqst_id)
    /\ \A s \in Sessions : \A k \in 1..Len(mem[s].new_items) :
         /\ WellFormedItem(mem[s].new_items[k], form[s].reliefrqst_id)
         /\ inventory[mem[s].new_items[k].fr_inventory_id].warehouse_id
              = form[s].warehouse_id

\* create_package has added a ReliefPkgItem for a line of the form
C17_Witness ==
    \E s \in Sessions :
      /\ form[s].op = "create" /\ Len(mem[s].new_items) = 1
      /\ mem[s].new_items[1].item_qty = float(form[s].item_qtys[mem[s].i])
      /\ mem[s].new_items[1].item_id = int(form[s].rqst_item_ids[mem[s].i])

\* C18: every reliefpkg row create_package has committed is Pending when committed
\* and owns at least one ReliefPkgItem with positive item_qty; no form leads to a
\* committed package without items.
C18_NoEmptyPackage ==
    /\ \A id \in DOMAIN pkg :
         \E it \in pkgItem : it.reliefpkg_id = id /\ it.item_qty > 0
    /\ \A s \in Sessions :
         (DoneCreate(s) /\ result[s] = "ok")
         => \E k \in persisted[s] : k.t = "ReliefPkgItem"

\* the persisted ReliefPkgItems of item it in packages created against request req
IssuedItems(req, it) ==
    {x \in pkgItem : x.item_id = it /\ pkg[x.reliefpkg_id].reliefrqst_id = req}

\* two calls ended after both had loaded the ReliefRqstItem of the same item
BothLoadedRqstItem(s, t) ==
    \E k \in reads[s] \cap reads[t] : k.t = "ReliefRqstItem"

OpenItemsFrom(iv) ==
    {x \in pkgItem : x.fr_inventory_id = iv /\ pkg[x.reliefpkg_id].status_code # "C"}

C21_DispatchedOnce ==
    [][/\ \A id \in DOMAIN pkg :
            pkg[id].dispatch_dtime # 0
            => pkg'[id].dispatch_dtime = pkg[id].dispatch_dtime
       /\ \A s \in Sessions :
            (Returns(s) /\ form'[s].op = "dispatch" /\ result'[s] = "ok")
            => UpdatesOf(Key("ReliefPkg", form'[s].package_id, 0)) = {}]_vars

\* the error the five checks of a line give line k of the form, taken alone:
\* qty > 0, RequestItem exists, qty <= remaining, active source Inventory exists,
\* usable >= qty ("none" when the line passes all five)
FirstFailedCheck(f, k) ==
    LET it  == int(f.rqst_item_ids[k])
        qty == float(f.item_qtys[k])
        key == <<f.reliefrqst_id, it>>
        src == ActiveSourceAt(f.warehouse_id, it)
    IN  IF qty <= 0 THEN "InvalidQuantity"
        ELSE IF key \notin DOMAIN rqstItem THEN "ItemNotInRequest"
        ELSE IF qty > rqstItem[key].request_qty - rqstItem[key].issue_qty
             THEN "QuantityExceedsRemaining"
        ELSE IF src = {} THEN "ItemNotStocked"
        ELSE IF \A id \in src : inventory[id].usable_qty < qty THEN "InsufficientStock"
        ELSE "none"

\* C22: a create_package call checks its lines in form order and each line in the
\* order qty > 0, RequestItem exists, qty <= remaining, active source exists,
\* usable >= qty: it ends with the error of the first check that fails (the lines
\* before the failing one being blank or valid lines for other items) and
\* persists nothing.
C22_FirstFailedCheckDecides ==
    \A s \in Sessions :
      LET f == form[s] IN
      (DoneCreate(s) /\ PassesGate(f))
      => \A k \in 1..ZipLen(f) :
           ( /\ LineFilled(f.rqst_item_ids[k], f.item_qtys[k])
             /\ FirstFailedCheck(f, k) # "none"
             /\ \A j \in 1..(k - 1) :
                  \/ ~LineFilled(f.rqst_item_ids[j], f.item_qtys[j])
                  \/ /\ LineValid(f, j)
                     /\ f.rqst_item_ids[j] # f.rqst_item_ids[k] )
           => result[s] = FirstFailedCheck(f, k) /\ persisted[s] = {}

\* the order of the checks on the first filled line of a form: the call ends with
\* the error of the first of the five checks that line fails
FirstFilledLineDecides ==
    \A s \in Sessions :
      LET f == form[s] IN
      (DoneCreate(s) /\ PassesGate(f))
      => \A k \in 1..ZipLen(f) :
           ( /\ LineFilled(f.rqst_item_ids[k], f.item_qtys[k])
             /\ FirstFailedCheck(f, k) # "none"
             /\ \A j \in 1..(k - 1) : ~LineFilled(f.rqst_item_ids[j], f.item_qtys[j]) )
           => result[s] = FirstFailedCheck(f, k) /\ persisted[s] = {}

\* lines j < k of the form ask for the same item, each within the remaining quantity
\* and the usable quantity on its own, and together for more than one of the two
OverdrawingPair(f, j, k) ==
    LET it  == int(f.rqst_item_ids[k])
        sum == float(f.item_qtys[j]) + float(f.item_qtys[k])
    IN  /\ j < k
        /\ LineValid(f, j) /\ LineValid(f, k)
        /\ int(f.rqst_item_ids[j]) = it
        /\ \/ sum > rqstItem[<<f.reliefrqst_id, it>>].request_qty
                    - rqstItem[<<f.reliefrqst_id, it>>].issue_qty
           \/ \A id \in ActiveSourceAt(f.warehouse_id, it) : sum > inventory[id].usable_qty

\* C23: a create_package call with two lines for one item, each within remaining
\* and usable on its own but together over the usable (or the remaining) quantity,
\* does not end with success and persists nothing; no unit of work ever holds two
\* ReliefPkgItems with the same primary key (reliefpkg_id, fr_inventory_id, item_id).
C23_SameItemTwiceFails ==
    \A s \in Sessions :
      /\ ( /\ DoneCreate(s) /\ PassesGate(form[s])
           /\ \E j, k \in 1..ZipLen(form[s]) : OverdrawingPair(form[s], j, k) )
         => /\ result[s] # "ok"
            /\ persisted[s] = {}
            /\ pkgItem = {}
      /\ \A a, b \in 1..Len(mem[s].new_items) :
           PkgItemPk(mem[s].new_items[a]) = PkgItemPk(mem[s].new_items[b]) => a = b

\* a call with such a pair of lines has returned: over usable_qty 50 with 30 + 30,
\* over the remaining 20 with 20 + 20
C23_Witness ==
    \E s \in Sessions :
         /\ DoneCreate(s) /\ PassesGate(form[s])
         /\ form[s].rqst_item_ids = <<"1", "1">> /\ form[s].item_qtys = <<"30", "30">>
         /\ OverdrawingPair(form[s], 1, 2)
         /\ result[s] = "Exception"

\* C24: a step of a dispatch_package call, successful or failed, leaves every
\* Inventory row, every ReliefRqstItem and every ReliefPkgItem as it was, and every
\* reliefpkg row too except the status_code, dispatch_dtime and version_nbr of the
\* package it dispatches.
C24_DispatchTouchesOnlyPackage ==
    [][\A s \in Sessions :
         (form'[s].op = "dispatch" /\ pc'[s] # pc[s])
         => /\ UNCHANGED <<inventory, rqstItem, pkgItem>>
            /\ DOMAIN pkg' = DOMAIN pkg
            /\ \A id \in DOMAIN pkg :
                 IF id = form'[s].package_id
                 THEN /\ pkg'[id].reliefrqst_id = pkg[id].reliefrqst_id
                      /\ pkg'[id].to_inventory_id = pkg[id].to_inventory_id
                 ELSE pkg'[id] = pkg[id]]_vars

\* one dispatch_package call has succeeded and another one has been refused
C24_Witness ==
    \E s, t \in Sessions :
      /\ pc[s] = "done" /\ form[s].op = "dispatch" /\ result[s] = "ok"
      /\ pc[t] = "done" /\ form[t].op = "dispatch" /\ result[t] = "InvalidState"
      /\ \E id \in DOMAIN pkg : pkg[id].status_code = "D"

\* position of a package status in the workflow Pending, Dispatched, Completed
StatusRank(st) == CASE st = "P" -> 1 [] st = "D" -> 2 [] st = "C" -> 3

\* C25: a reliefpkg row has no dispatch_dtime exactly when its status_code is 'P',
\* and no step moves a row's status backwards ('D' or 'C' to 'P', 'C' to 'D') or
\* removes the row.
C25_DtimeIffDispatched ==
    [][/\ \A id \in DOMAIN pkg' :
            (pkg'[id].status_code = "P") <=> (pkg'[id].dispatch_dtime = 0)
       /\ \A id \in DOMAIN pkg :
            /\ id \in DOMAIN pkg'
            /\ StatusRank(pkg'[id].status_code) >= StatusRank(pkg[id].status_code)]_vars

\* a Pending row without dispatch_dtime next to a Dispatched row with one
C25_Witness ==
    \E a, b \in DOMAIN pkg :
      /\ pkg[a].status_code = "P" /\ pkg[a].dispatch_dtime = 0
      /\ pkg[b].status_code = "D" /\ pkg[b].dispatch_dtime > 0

\* C26: a flush advances the version only of objects with unsaved changes: an
\* object that was only read, or is in session.dirty without a net change, keeps
\* its version_nbr, gets no _original_version_nbr, and its row is left as it was.
C26_ReadOnlyKeepsVersion ==
    [][\A i \in DOMAIN uow.objs :
         ~uow.objs[i].modified
         => /\ uow'.objs[i].version_nbr = uow.objs[i].version_nbr
            /\ ~HasOriginal(uow'.objs[i])
            /\ uow'.rows[i] = uow.rows[i]]_vars

\* a flush has ended that advanced one object's version next to an object that was
\* only read, whose row still has no update
C26_Witness ==
    /\ uow.phase = "done" /\ uow.result = "ok"
    /\ \E i, j \in DOMAIN uow.objs :
         /\ uow.rows[i].updates = 0 /\ uow.objs[i].has_version
         /\ uow.objs[i].version_nbr = 1 /\ uow.rows[i].version_nbr = 1
         /\ uow.rows[j].updates = 1 /\ uow.rows[j].version_nbr = 2
         /\ uow.saved[j].version_nbr = 1

\* C27: an object whose version_nbr the caller has assigned itself is left alone by
\* before_flush: the value is not incremented and no _original_version_nbr is
\* recorded, the flush writes the assigned value to the row, and the object reaches
\* after_flush without _original_version_nbr, so it is not verified and the flush
\* does not end with OptimisticLockError on its account.
C27_ExplicitVersionWritten ==
    [][\A i \in DOMAIN uow.objs :
         uow.objs[i].version_set
         => /\ uow'.objs[i].version_nbr = uow.objs[i].version_nbr
            /\ ~HasOriginal(uow'.objs[i])
            /\ uow.phase = "flush"
               => /\ uow'.rows[i].version_nbr = uow.objs[i].version_nbr
                  /\ uow'.rows[i].updates = uow.rows[i].updates + 1
                  /\ ~VerifyOptimisticLock(uow'.objs[i])]_vars

\* a flush has ended that wrote an assigned version 1 over a row another writer
\* had meanwhile moved to version 3
C27_Witness ==
    /\ uow.phase = "done" /\ uow.result = "ok"
    /\ \E i \in DOMAIN uow.objs :
         /\ uow.saved[i].version_nbr = 3
         /\ uow.rows[i].version_nbr = 1
         /\ uow.objs[i].version_nbr = 1

\* the objects of the unit of work that line 41 finds with version_nbr None
NoneVersioned ==
    {i \in SessionDirty(uow.objs) :
       /\ uow.objs[i].has_version /\ uow.objs[i].modified
       /\ ~uow.objs[i].version_set /\ uow.objs[i].version_nbr = 0}

\* C28: a modified object whose version_nbr is None is skipped by before_flush with
\* a warning: its version_nbr stays None, it gets no _original_version_nbr and so is
\* not verified after the flush, which does not end with OptimisticLockError; the
\* other modified objects of the same unit of work are still advanced by one and
\* get their _original_version_nbr.
C28_NoneVersionSkipped ==
    [][/\ \A i \in NoneVersioned :
            /\ uow'.objs[i].version_nbr = 0
            /\ ~HasOriginal(uow'.objs[i])
            /\ uow.phase = "before_flush" => i \in uow'.warned
            /\ uow.phase = "flush" => uow'.rows[i].version_nbr = uow.rows[i].version_nbr
       /\ (uow.phase = "before_flush" /\ NoneVersioned # {})
          => \A j \in SessionDirty(uow.objs) \ NoneVersioned :
               ( /\ uow.objs[j].has_version /\ uow.objs[j].modified
                 /\ ~uow.objs[j].version_set )
               => /\ uow'.objs[j].version_nbr = uow.objs[j].version_nbr + 1
                  /\ uow'.objs[j].original_version_nbr = uow.objs[j].version_nbr
       /\ uow'.result # "OptimisticLockError"]_vars

\* a flush has ended with a warning for its first object, whose version_nbr is
\* still None, and with the version of its second object advanced from 1 to 2
C28_Witness ==
    /\ uow.phase = "done" /\ uow.result = "ok"
    /\ Len(uow.objs) = 2
    /\ uow.warned = {1}
    /\ uow.objs[1].version_nbr = 0 /\ uow.rows[1].updates = 1
    /\ uow.objs[2].version_nbr = 2 /\ uow.rows[2].version_nbr = 2
    /\ uow.saved[2].version_nbr = 1

\* C29: no step of a create_package or dispatch_package call, successful or
\* failed, changes the status_code of a ReliefRqst.
C29_RequestStatusKept ==
    [][\A s \in Sessions :
         (pc'[s] # pc[s] /\ form'[s].op \in {"create", "dispatch"})
         => \A id \in DOMAIN rqst :
              /\ id \in DOMAIN rqst'
              /\ rqst'[id].status_code = rqst[id].status_code]_vars

\* a package has been committed for an approved request and dispatched, a later
\* create_package call has failed, and the request is still approved
C29_Witness ==
    /\ \E id \in DOMAIN pkg :
         /\ pkg[id].status_code = "D"
         /\ rqst[pkg[id].reliefrqst_id].status_code = 2
    /\ \E s \in Sessions : DoneCreate(s) /\ result[s] = "Exception"

====
